---- MODULE Spec2Model ----
(***************************************************************************)
(* Model of the trusted-proxies crate: the trust configuration             *)
(* (src/src/config.rs), the request abstraction (src/src/extract.rs) and   *)
(* the resolution algorithm Trusted::from (src/src/trusted.rs).            *)
(*                                                                         *)
(* Header values are TLA+ strings and are parsed character by character,  *)
(* as the code does with str::split, str::trim, trim_start_matches, ...    *)
(* Option<T> is a sequence: <<>> is None and <<x>> is Some(x).             *)
(* An IpAddr is [v |-> 4, g |-> four octets] or                            *)
(* [v |-> 6, g |-> eight 16-bit groups].                                   *)
(***************************************************************************)
EXTENDS Integers, Sequences, FiniteSets, TLC

VARIABLES config, ctor, call, ret

vars == <<config, ctor, call, ret>>

None == <<>>
Some(x) == <<x>>

IsSome(o) == o # None
Unwrap(o) == o[1]

(***************************************************************************)
(* Bounds of the model.                                                    *)
(***************************************************************************)
\* add_trusted_ip calls that may succeed on one Config
MaxAdds == 1
\* comma-separated records in one generated Forwarded header
MaxRecords == 2
\* comma-separated entries in one generated X-Forwarded-For header
MaxEntries == 2
\* layers of double quotes around a Forwarded parameter value
MaxQuotes == 2
\* networks added to one Config when the trusted set is examined
MaxNets == 2

(***************************************************************************)
(* Strings: the str methods the code calls.                                *)
(***************************************************************************)
Ch(s, i) == SubSeq(s, i, i)

\* char::is_whitespace, for the characters an HTTP header value can hold
IsWhitespace(c) == c \in {" ", "\t"}

RECURSIVE TrimStart(_)
TrimStart(s) ==
    IF Len(s) > 0 /\ IsWhitespace(Ch(s, 1)) THEN TrimStart(Tail(s)) ELSE s

RECURSIVE TrimEnd(_)
TrimEnd(s) ==
    IF Len(s) > 0 /\ IsWhitespace(Ch(s, Len(s)))
    THEN TrimEnd(SubSeq(s, 1, Len(s) - 1)) ELSE s

\* str::trim
Trim(s) == TrimEnd(TrimStart(s))

\* str::trim_start_matches(c): removes every leading c
RECURSIVE TrimStartMatches(_, _)
TrimStartMatches(s, c) ==
    IF Len(s) > 0 /\ Ch(s, 1) = c THEN TrimStartMatches(Tail(s), c) ELSE s

\* str::trim_end_matches(c): removes every trailing c
RECURSIVE TrimEndMatches(_, _)
TrimEndMatches(s, c) ==
    IF Len(s) > 0 /\ Ch(s, Len(s)) = c
    THEN TrimEndMatches(SubSeq(s, 1, Len(s) - 1), c) ELSE s

\* index of the first occurrence of pattern p in s at or after i, 0 if none
RECURSIVE Find(_, _, _)
Find(s, p, i) ==
    IF i + Len(p) - 1 > Len(s) THEN 0
    ELSE IF SubSeq(s, i, i + Len(p) - 1) = p THEN i
    ELSE Find(s, p, i + 1)

\* str::split(p), collected: never empty, "" splits to <<"">>
RECURSIVE Split(_, _)
Split(s, p) ==
    LET i == Find(s, p, 1)
    IN  IF i = 0 THEN <<s>>
        ELSE <<SubSeq(s, 1, i - 1)>> \o Split(SubSeq(s, i + Len(p), Len(s)), p)

\* str::splitn(2, p), collected
SplitN2(s, p) ==
    LET i == Find(s, p, 1)
    IN  IF i = 0 THEN <<s>>
        ELSE <<SubSeq(s, 1, i - 1), SubSeq(s, i + Len(p), Len(s))>>

StartsWith(s, p) == Len(s) >= Len(p) /\ SubSeq(s, 1, Len(p)) = p

UpperCase == "ABCDEFGHIJKLMNOPQRSTUVWXYZ"
LowerCase == "abcdefghijklmnopqrstuvwxyz"

\* the ASCII upper case letters, each with its lower case letter
LowerOf == [c \in {Ch(UpperCase, i) : i \in 1..26} |-> Ch(LowerCase, Find(UpperCase, c, 1))]

LowerChar(c) == IF c \in DOMAIN LowerOf THEN LowerOf[c] ELSE c

\* mutant: the text is left in the case it was written in
ToLowercase_AsWritten(s) == s

\* str::to_lowercase on ASCII text
RECURSIVE ToLowercase(_)
ToLowercase(s) ==
    IF Len(s) = 0 THEN s ELSE LowerChar(Ch(s, 1)) \o ToLowercase(Tail(s))

Reverse(q) == [i \in 1..Len(q) |-> q[Len(q) + 1 - i]]

RECURSIVE Flatten(_)
Flatten(qq) == IF Len(qq) = 0 THEN <<>> ELSE Head(qq) \o Flatten(Tail(qq))

\* iter.flat_map(|vals| vals.split(',')), collected
FlatSplit(vals) == Flatten([i \in 1..Len(vals) |-> Split(vals[i], ",")])

MapTrim(q) == [i \in 1..Len(q) |-> Trim(q[i])]

\* iter.next_back()
NextBack(q) == IF Len(q) = 0 THEN None ELSE Some(q[Len(q)])

(***************************************************************************)
(* Addresses and networks: core::net::IpAddr and ipnet::IpNet, the two     *)
(* library types the code parses text into and tests membership with.      *)
(***************************************************************************)
Digits == "0123456789"
HexDigits == "0123456789abcdef"

\* each digit with its value
DigitValue == [c \in {Ch(HexDigits, i) : i \in 1..16} |-> Find(HexDigits, c, 1) - 1]

IsDigit(c) == c \in DOMAIN DigitValue /\ DigitValue[c] < 10
IsHexDigit(c) == LowerChar(c) \in DOMAIN DigitValue

AllDigits(s) == \A i \in 1..Len(s) : IsDigit(Ch(s, i))
AllHexDigits(s) == \A i \in 1..Len(s) : IsHexDigit(Ch(s, i))

\* value of a digit string in the given radix (the caller checked the digits)
RECURSIVE NumberValue(_, _)
NumberValue(s, radix) ==
    IF Len(s) = 0 THEN 0
    ELSE NumberValue(SubSeq(s, 1, Len(s) - 1), radix) * radix
         + DigitValue[LowerChar(Ch(s, Len(s)))]

\* one decimal octet of an IPv4 literal: 1 to 3 digits, no zero prefix, <= 255
ParseOctet(s) ==
    IF /\ Len(s) \in 1..3
       /\ AllDigits(s)
       /\ (Len(s) > 1 => Ch(s, 1) # "0")
    THEN LET n == NumberValue(s, 10) IN IF n <= 255 THEN Some(n) ELSE None
    ELSE None

\* one group of an IPv6 literal: 1 to 4 hex digits
ParseGroup(s) ==
    IF Len(s) \in 1..4 /\ AllHexDigits(s)
    THEN Some(NumberValue(s, 16)) ELSE None

\* the parsed parts, if every part parsed
Collect(r) ==
    IF \A i \in 1..Len(r) : IsSome(r[i])
    THEN Some([i \in 1..Len(r) |-> Unwrap(r[i])]) ELSE None

ParseOctets(parts) == Collect([i \in 1..Len(parts) |-> ParseOctet(parts[i])])
ParseGroups(parts) == Collect([i \in 1..Len(parts) |-> ParseGroup(parts[i])])

\* "a.b.c.d".parse::<Ipv4Addr>()
ParseIpv4(s) ==
    LET parts == Split(s, ".")
    IN  IF Len(parts) = 4
        THEN LET g == ParseOctets(parts)
             IN  IF IsSome(g) THEN Some([v |-> 4, g |-> Unwrap(g)]) ELSE None
        ELSE None

Zeros(n) == [i \in 1..n |-> 0]

\* "x:x::x".parse::<Ipv6Addr>(), for literals without an embedded IPv4 tail
ParseIpv6(s) ==
    LET i == Find(s, "::", 1)
    IN  IF i = 0
        THEN LET g == ParseGroups(Split(s, ":"))
             IN  IF IsSome(g) /\ Len(Unwrap(g)) = 8
                 THEN Some([v |-> 6, g |-> Unwrap(g)]) ELSE None
        ELSE LET left == SubSeq(s, 1, i - 1)
                 right == SubSeq(s, i + 2, Len(s))
                 lg == IF left = "" THEN Some(<<>>) ELSE ParseGroups(Split(left, ":"))
                 rg == IF right = "" THEN Some(<<>>) ELSE ParseGroups(Split(right, ":"))
             IN  IF /\ Find(right, "::", 1) = 0
                    /\ IsSome(lg) /\ IsSome(rg)
                    /\ Len(Unwrap(lg)) + Len(Unwrap(rg)) <= 7
                 THEN Some([v |-> 6,
                            g |-> Unwrap(lg)
                                  \o Zeros(8 - Len(Unwrap(lg)) - Len(Unwrap(rg)))
                                  \o Unwrap(rg)])
                 ELSE None

\* str::parse::<IpAddr>()
ParseIpAddr(s) ==
    LET v4 == ParseIpv4(s)
    IN  IF IsSome(v4) THEN v4 ELSE ParseIpv6(s)

AddrBits(a) == IF a.v = 4 THEN 32 ELSE 128
GroupBits(a) == IF a.v = 4 THEN 8 ELSE 16

RECURSIVE Pow2(_)
Pow2(n) == IF n = 0 THEN 1 ELSE 2 * Pow2(n - 1)

\* str::parse::<IpNet>(): "address/prefix-length"
ParseIpNet(s) ==
    LET parts == Split(s, "/")
        a == ParseIpAddr(parts[1])
    IN  IF /\ Len(parts) = 2
           /\ IsSome(a)
           /\ Len(parts[2]) \in 1..3
           /\ AllDigits(parts[2])
           /\ NumberValue(parts[2], 10) <= AddrBits(Unwrap(a))
        THEN Some([addr |-> Unwrap(a), len |-> NumberValue(parts[2], 10)])
        ELSE None

\* IpNet::from(IpAddr): the host-length prefix
IpNetFrom(a) == [addr |-> a, len |-> AddrBits(a)]

\* IpNet::contains(&IpAddr)
Contains(net, a) ==
    /\ net.addr.v = a.v
    /\ LET w == GroupBits(a)
           full == net.len \div w
           rem == net.len % w
       IN  /\ \A i \in 1..full : net.addr.g[i] = a.g[i]
           /\ rem > 0 =>
                (net.addr.g[full + 1] \div Pow2(w - rem)) = (a.g[full + 1] \div Pow2(w - rem))

(***************************************************************************)
(* Config (src/src/config.rs)                                              *)
(***************************************************************************)
Net(s) == Unwrap(ParseIpNet(s))

\* Config::new
ConfigNew ==
    [trusted_ips |-> <<>>,
     is_forwarded_trusted |-> FALSE,
     is_x_forwarded_for_trusted |-> FALSE,
     is_x_forwarded_host_trusted |-> FALSE,
     is_x_forwarded_proto_trusted |-> FALSE,
     is_x_forwarded_by_trusted |-> FALSE]

\* mutant: the second private range is 172.16.0.0/16
ConfigNewLocal_Narrow ==
    [trusted_ips |-> <<Net("127.0.0.0/8"), Net("10.0.0.0/8"), Net("172.16.0.0/16"),
                       Net("192.168.0.0/16"), Net("::1/128"), Net("fd00::/8")>>,
     is_forwarded_trusted |-> TRUE,
     is_x_forwarded_for_trusted |-> TRUE,
     is_x_forwarded_host_trusted |-> FALSE,
     is_x_forwarded_proto_trusted |-> FALSE,
     is_x_forwarded_by_trusted |-> FALSE]

\* Config::new_local
ConfigNewLocal ==
    [trusted_ips |-> <<Net("127.0.0.0/8"), Net("10.0.0.0/8"), Net("172.16.0.0/12"),
                       Net("192.168.0.0/16"), Net("::1/128"), Net("fd00::/8")>>,
     is_forwarded_trusted |-> TRUE,
     is_x_forwarded_for_trusted |-> TRUE,
     is_x_forwarded_host_trusted |-> FALSE,
     is_x_forwarded_proto_trusted |-> FALSE,
     is_x_forwarded_by_trusted |-> FALSE]

\* Default::default
ConfigDefault == ConfigNewLocal

\* mutant: a bare address is refused, only the CIDR form is taken
add_trusted_ip_CidrOnly(cfg, proxy) ==
    LET net == ParseIpNet(proxy)
    IN  IF IsSome(net)
        THEN Some([cfg EXCEPT !.trusted_ips = Append(@, Unwrap(net))])
        ELSE None

\* Config::add_trusted_ip: the new list, or None for Err(AddrParseError)
add_trusted_ip(cfg, proxy) ==
    LET net == ParseIpNet(proxy)
        addr == ParseIpAddr(proxy)
    IN  IF IsSome(net)
        THEN Some([cfg EXCEPT !.trusted_ips = Append(@, Unwrap(net))])
        ELSE IF IsSome(addr)
        THEN Some([cfg EXCEPT !.trusted_ips = Append(@, IpNetFrom(Unwrap(addr)))])
        ELSE None

\* mutant: only the network added last is consulted
is_ip_trusted_LastOnly(cfg, remote_addr) ==
    /\ Len(cfg.trusted_ips) > 0
    /\ Contains(cfg.trusted_ips[Len(cfg.trusted_ips)], remote_addr)

\* Config::is_ip_trusted
is_ip_trusted(cfg, remote_addr) ==
    \E i \in 1..Len(cfg.trusted_ips) : Contains(cfg.trusted_ips[i], remote_addr)

(***************************************************************************)
(* RequestInformation (src/src/extract.rs).  A request is a record of what *)
(* the trait's required methods return:                                    *)
(*   is_host_header_allowed : BOOLEAN                                      *)
(*   host_header, authority, default_scheme : Option<&str>                 *)
(*   forwarded, x_forwarded_for, x_forwarded_host, x_forwarded_proto,      *)
(*   x_forwarded_by : the header's instance values, in header order        *)
(***************************************************************************)
\* mutant: the Host header is used whatever the protocol version
default_host_AnyVersion(request) ==
    IF IsSome(request.host_header)
    THEN request.host_header
    ELSE request.authority

\* RequestInformation::default_host
default_host(request) ==
    IF IsSome(request.host_header) /\ request.is_host_header_allowed
    THEN request.host_header
    ELSE request.authority

\* http::Version, in the order of the type
Versions == <<"HTTP/0.9", "HTTP/1.0", "HTTP/1.1", "HTTP/2.0", "HTTP/3.0">>

VersionRank(version) == CHOOSE i \in 1..Len(Versions) : Versions[i] = version

\* is_host_header_allowed of http::Request and http::request::Parts
is_host_header_allowed(version) == VersionRank(version) < VersionRank("HTTP/2.0")

(***************************************************************************)
(* Trusted (src/src/trusted.rs)                                            *)
(***************************************************************************)
\* mutant: one double quote at most is removed at each end
unquote_OneLayer(val) ==
    LET t == Trim(val)
        u == IF StartsWith(t, "\"") THEN Tail(t) ELSE t
    IN  IF Len(u) > 0 /\ Ch(u, Len(u)) = "\"" THEN SubSeq(u, 1, Len(u) - 1) ELSE u

\* unquote
unquote(val) == TrimEndMatches(TrimStartMatches(Trim(val), "\""), "\"")

\* mutant: brackets are not looked for, the text before the first ':' is taken
bare_address_FirstColon(val) == Split(val, ":")[1]

\* bare_address
bare_address(val) ==
    IF StartsWith(val, "[")
    THEN TrimEndMatches(TrimStartMatches(Split(val, "]:")[1], "["), "]")
    ELSE Split(val, ":")[1]

\* the closure of the inner loop: one "key=value" item of a Forwarded record
KeyValue(item) ==
    LET kv == SplitN2(item, "=")
    IN  [key |-> Trim(kv[1]),
         value |-> IF Len(kv) >= 2 THEN unquote(Trim(kv[2])) ELSE ""]

Unset == [host |-> None, scheme |-> None, by |-> None, realip_remote_addr |-> None]

\* The inner loop over the items of one record, from item i on.  st holds the
\* four mutable locals.  The outcome is the locals and how the loop was left:
\* next = TRUE for "continue 'forwaded", FALSE when the items are exhausted
\* (the code then reaches the break that ends the walk).
\* mutant: a trusted hop resets the address only, not host, scheme and by
RECURSIVE RecordItems_KeepsFields(_, _, _, _)
RecordItems_KeepsFields(cfg, items, i, st) ==
    IF i > Len(items) THEN [st |-> st, next |-> FALSE]
    ELSE
        LET kv == KeyValue(items[i])
            key == ToLowercase(kv.key)
            ip == ParseIpAddr(bare_address(kv.value))
        IN  IF key = "for"
            THEN IF IsSome(ip)
                 THEN IF is_ip_trusted(cfg, Unwrap(ip))
                      THEN [st |-> [st EXCEPT !.realip_remote_addr = None], next |-> TRUE]
                      ELSE RecordItems_KeepsFields(cfg, items, i + 1,
                                       [st EXCEPT !.realip_remote_addr = ip])
                 ELSE RecordItems_KeepsFields(cfg, items, i + 1, st)
            ELSE IF key = "proto"
            THEN RecordItems_KeepsFields(cfg, items, i + 1, [st EXCEPT !.scheme = Some(kv.value)])
            ELSE IF key = "host"
            THEN RecordItems_KeepsFields(cfg, items, i + 1, [st EXCEPT !.host = Some(kv.value)])
            ELSE IF key = "by"
            THEN RecordItems_KeepsFields(cfg, items, i + 1, [st EXCEPT !.by = Some(kv.value)])
            ELSE RecordItems_KeepsFields(cfg, items, i + 1, st)

\* mutant: a trusted hop is skipped with its address left in place
RECURSIVE RecordItems_NoReset(_, _, _, _)
RecordItems_NoReset(cfg, items, i, st) ==
    IF i > Len(items) THEN [st |-> st, next |-> FALSE]
    ELSE
        LET kv == KeyValue(items[i])
            key == ToLowercase(kv.key)
            ip == ParseIpAddr(bare_address(kv.value))
        IN  IF key = "for"
            THEN IF IsSome(ip)
                 THEN IF is_ip_trusted(cfg, Unwrap(ip))
                      THEN [st |-> [Unset EXCEPT !.realip_remote_addr = ip], next |-> TRUE]
                      ELSE RecordItems_NoReset(cfg, items, i + 1,
                                       [st EXCEPT !.realip_remote_addr = ip])
                 ELSE RecordItems_NoReset(cfg, items, i + 1, st)
            ELSE IF key = "proto"
            THEN RecordItems_NoReset(cfg, items, i + 1, [st EXCEPT !.scheme = Some(kv.value)])
            ELSE IF key = "host"
            THEN RecordItems_NoReset(cfg, items, i + 1, [st EXCEPT !.host = Some(kv.value)])
            ELSE IF key = "by"
            THEN RecordItems_NoReset(cfg, items, i + 1, [st EXCEPT !.by = Some(kv.value)])
            ELSE RecordItems_NoReset(cfg, items, i + 1, st)

RECURSIVE RecordItems(_, _, _, _)
RecordItems(cfg, items, i, st) ==
    IF i > Len(items) THEN [st |-> st, next |-> FALSE]
    ELSE
        LET kv == KeyValue(items[i])
            key == ToLowercase(kv.key)
            ip == ParseIpAddr(bare_address(kv.value))
        IN  IF key = "for"
            THEN IF IsSome(ip)
                 THEN IF is_ip_trusted(cfg, Unwrap(ip))
                      THEN [st |-> Unset, next |-> TRUE]
                      ELSE RecordItems(cfg, items, i + 1,
                                       [st EXCEPT !.realip_remote_addr = ip])
                 ELSE RecordItems(cfg, items, i + 1, st)
            ELSE IF key = "proto"
            THEN RecordItems(cfg, items, i + 1, [st EXCEPT !.scheme = Some(kv.value)])
            ELSE IF key = "host"
            THEN RecordItems(cfg, items, i + 1, [st EXCEPT !.host = Some(kv.value)])
            ELSE IF key = "by"
            THEN RecordItems(cfg, items, i + 1, [st EXCEPT !.by = Some(kv.value)])
            ELSE RecordItems(cfg, items, i + 1, st)

\* The loop 'forwaded over forwarded_list (the records in reverse order),
\* from record j on.
\* mutant: the break that ends the walk is missing
RECURSIVE ForwardedLoop_NoBreak(_, _, _, _)
ForwardedLoop_NoBreak(cfg, forwarded_list, j, st) ==
    IF j > Len(forwarded_list) THEN st
    ELSE ForwardedLoop_NoBreak(cfg, forwarded_list, j + 1,
            RecordItems(cfg, Split(forwarded_list[j], ";"), 1, st).st)

RECURSIVE ForwardedLoop(_, _, _, _)
ForwardedLoop(cfg, forwarded_list, j, st) ==
    IF j > Len(forwarded_list) THEN st
    ELSE
        LET r == RecordItems(cfg, Split(forwarded_list[j], ";"), 1, st)
        IN  IF r.next THEN ForwardedLoop(cfg, forwarded_list, j + 1, r.st) ELSE r.st

\* mutant: the records are read in header order, oldest hop first
ForwardedStep_NoRev(request, cfg) ==
    IF cfg.is_forwarded_trusted
    THEN ForwardedLoop(cfg, FlatSplit(request.forwarded), 1, Unset)
    ELSE Unset

\* mutant: host, scheme and by are kept only with a client address
ForwardedStep_DropsFields(request, cfg) ==
    IF cfg.is_forwarded_trusted
    THEN LET st == ForwardedLoop(cfg, Reverse(FlatSplit(request.forwarded)), 1, Unset)
         IN  IF IsSome(st.realip_remote_addr) THEN st ELSE Unset
    ELSE Unset

\* step 1: the Forwarded header, if it is trusted
ForwardedStep(request, cfg) ==
    IF cfg.is_forwarded_trusted
    THEN ForwardedLoop(cfg, Reverse(FlatSplit(request.forwarded)), 1, Unset)
    ELSE Unset

\* The loop over the X-Forwarded-For entries in reverse order, from entry j on:
\* the value of realip_remote_addr when the loop is left.
\* mutant: the break is inside the if, so an entry that does not parse is skipped
RECURSIVE XForwardedForLoop_SkipsUnparsed(_, _, _)
XForwardedForLoop_SkipsUnparsed(cfg, values, j) ==
    IF j > Len(values) THEN None
    ELSE
        LET ip == ParseIpAddr(bare_address(values[j]))
        IN  IF IsSome(ip) /\ ~is_ip_trusted(cfg, Unwrap(ip))
            THEN ip
            ELSE XForwardedForLoop_SkipsUnparsed(cfg, values, j + 1)

RECURSIVE XForwardedForLoop(_, _, _)
XForwardedForLoop(cfg, values, j) ==
    IF j > Len(values) THEN None
    ELSE
        LET ip == ParseIpAddr(bare_address(values[j]))
        IN  IF IsSome(ip)
            THEN IF is_ip_trusted(cfg, Unwrap(ip))
                 THEN XForwardedForLoop(cfg, values, j + 1)
                 ELSE ip
            ELSE None

\* mutant: the flag of X-Forwarded-For is not consulted
XForwardedForStep_NoFlag(request, cfg, st) ==
    IF st.realip_remote_addr = None
    THEN [st EXCEPT !.realip_remote_addr =
            XForwardedForLoop(cfg, Reverse(MapTrim(FlatSplit(request.x_forwarded_for))), 1)]
    ELSE st

\* mutant: X-Forwarded-For is walked even when Forwarded gave the address
XForwardedForStep_Overrides(request, cfg, st) ==
    IF cfg.is_x_forwarded_for_trusted
    THEN [st EXCEPT !.realip_remote_addr =
            XForwardedForLoop(cfg, Reverse(MapTrim(FlatSplit(request.x_forwarded_for))), 1)]
    ELSE st

\* step 2: X-Forwarded-For, if it is trusted and step 1 found no address
XForwardedForStep(request, cfg, st) ==
    IF st.realip_remote_addr = None /\ cfg.is_x_forwarded_for_trusted
    THEN [st EXCEPT !.realip_remote_addr =
            XForwardedForLoop(cfg, Reverse(MapTrim(FlatSplit(request.x_forwarded_for))), 1)]
    ELSE st

\* mutant: next() for next_back(), the first value
LastValue_First(vals) ==
    LET q == MapTrim(FlatSplit(vals)) IN IF Len(q) = 0 THEN None ELSE Some(q[1])

\* the last comma-separated value of a header, trimmed
LastValue(vals) == NextBack(MapTrim(FlatSplit(vals)))

\* step 3: X-Forwarded-Host
XForwardedHostStep(request, cfg, st) ==
    IF st.host = None /\ cfg.is_x_forwarded_host_trusted
    THEN [st EXCEPT !.host = LastValue(request.x_forwarded_host)]
    ELSE st

\* mutant: the flag of X-Forwarded-Proto is not consulted
XForwardedProtoStep_NoFlag(request, cfg, st) ==
    IF st.scheme = None
    THEN [st EXCEPT !.scheme = LastValue(request.x_forwarded_proto)]
    ELSE st

\* step 4: X-Forwarded-Proto
XForwardedProtoStep(request, cfg, st) ==
    IF st.scheme = None /\ cfg.is_x_forwarded_proto_trusted
    THEN [st EXCEPT !.scheme = LastValue(request.x_forwarded_proto)]
    ELSE st

\* step 5: X-Forwarded-By
XForwardedByStep(request, cfg, st) ==
    IF st.by = None /\ cfg.is_x_forwarded_by_trusted
    THEN [st EXCEPT !.by = LastValue(request.x_forwarded_by)]
    ELSE st

OrElse(o, d) == IF IsSome(o) THEN o ELSE d

\* the branch of an untrusted peer
Untrusted(ip_addr, request) ==
    [host |-> default_host(request),
     scheme |-> request.default_scheme,
     by |-> None,
     ip |-> ip_addr]

\* the locals after steps 1 to 5, for a trusted peer
Steps(request, cfg) ==
    XForwardedByStep(request, cfg,
      XForwardedProtoStep(request, cfg,
        XForwardedHostStep(request, cfg,
          XForwardedForStep(request, cfg,
            ForwardedStep(request, cfg)))))

\* mutant: host is returned as the steps left it
Fill_NoHostFallback(ip_addr, request, st) ==
    [host |-> st.host,
     scheme |-> OrElse(st.scheme, request.default_scheme),
     by |-> st.by,
     ip |-> IF IsSome(st.realip_remote_addr) THEN Unwrap(st.realip_remote_addr) ELSE ip_addr]

\* the final tuple of the trusted branch
Fill(ip_addr, request, st) ==
    [host |-> OrElse(st.host, default_host(request)),
     scheme |-> OrElse(st.scheme, request.default_scheme),
     by |-> st.by,
     ip |-> IF IsSome(st.realip_remote_addr) THEN Unwrap(st.realip_remote_addr) ELSE ip_addr]

\* mutant: the peer address is not checked
From_AnyPeer(ip_addr, request, cfg) ==
    Fill(ip_addr, request, Steps(request, cfg))

\* Trusted::from: the fields of the Trusted value
From(ip_addr, request, cfg) ==
    IF ~is_ip_trusted(cfg, ip_addr)
    THEN Untrusted(ip_addr, request)
    ELSE Fill(ip_addr, request, Steps(request, cfg))

\* u16::MAX
U16Max == 65535

\* str::parse::<u16>(): an optional '+', then decimal digits, the value <= MAX
ParseU16(s) ==
    LET d == IF StartsWith(s, "+") THEN Tail(s) ELSE s
        significant == TrimStartMatches(d, "0")
    IN  IF Len(d) >= 1 /\ AllDigits(d) /\ Len(significant) <= 5
        THEN LET n == NumberValue(significant, 10)
             IN  IF n <= U16Max THEN Some(n) ELSE None
        ELSE None

\* Trusted::host_with_port
host_with_port(trusted) == trusted.host

\* Trusted::host
host(trusted) ==
    LET h == host_with_port(trusted)
    IN  IF IsSome(h) THEN Some(Split(Unwrap(h), ":")[1]) ELSE None

\* Trusted::port
port(trusted) ==
    LET h == host_with_port(trusted)
    IN  IF IsSome(h)
        THEN LET parts == Split(Unwrap(h), ":")
             IN  IF Len(parts) >= 2 THEN ParseU16(parts[2]) ELSE None
        ELSE None

(***************************************************************************)
(* Inputs                                                                  *)
(***************************************************************************)
Addr(s) == Unwrap(ParseIpAddr(s))

\* peer addresses: one in a private range, one trusted only once it is added
Peers == {Addr("10.0.0.1"), Addr("8.8.8.8")}

\* arguments of add_trusted_ip: a bare address and a text that is no address
AddTexts == {"8.8.8.8", "nope"}

SeqsUpTo(S, n) == UNION {[1..k -> S] : k \in 0..n}

RECURSIVE Join(_, _)
Join(q, sep) ==
    IF Len(q) = 0 THEN ""
    ELSE IF Len(q) = 1 THEN q[1]
    ELSE q[1] \o sep \o Join(Tail(q), sep)

\* a header made of the elements q: absent, one instance holding the
\* comma-separated list, or one instance per element
Layouts(q, sep) == IF Len(q) = 0 THEN {<<>>} ELSE {<<Join(q, sep)>>, q}

HeaderValues(elements, n, sep) ==
    UNION {Layouts(q, sep) : q \in SeqsUpTo(elements, n)}

\* records of a Forwarded header: an address nobody trusts, a private one
\* followed by proto, one trusted once added and preceded by host, a record
\* without a for= parameter
ForwardedRecords ==
    {"for=1.1.1.1",
     "for=10.0.0.1;proto=http",
     "host=h.io; For=8.8.8.8",
     "proto=https;by=px"}

\* Forwarded headers whose closest hop gives a for= that is not an address
ForwardedOdd ==
    {<<"for=1.1.1.1, for=_hidden;proto=https">>, <<"for=10.0.0.1;by=b1", "For=unknown">>}

\* entries of an X-Forwarded-For header
ForEntries == {"1.1.1.1", "10.0.0.1:80", "8.8.8.8", "unknown"}

ForwardedValues == HeaderValues(ForwardedRecords, MaxRecords, ", ")
ForValues == HeaderValues(ForEntries, MaxEntries, ", ")

ForwardedFew ==
    {<<>>, <<"for=1.1.1.1;proto=https;by=px;host=h.io">>, <<"for=10.0.0.1;host=t.io">>,
     <<"for=_hidden;proto=https">>}
ForFew == {<<>>, <<"1.1.1.1, 8.8.8.8">>}
HostValues == {<<>>, <<"first.com:1234", "a.org , example.com:8080 ">>}
ProtoValues == {<<>>, <<"http, https">>}
ByValues == {<<>>, <<"p1", "p2,p3">>}

\* what the request says of itself: HTTP/1.1 with Host and an absolute URI,
\* HTTP/2 with a Host header that must be ignored, a bare "GET /"
Http1 ==
    [is_host_header_allowed |-> TRUE, host_header |-> Some("rust-lang.org:8081"),
     authority |-> Some("localhost:8080"), default_scheme |-> Some("http")]
Http2 ==
    [is_host_header_allowed |-> FALSE, host_header |-> Some("rust-lang.org"),
     authority |-> Some("localhost"), default_scheme |-> Some("https")]
Bare ==
    [is_host_header_allowed |-> TRUE, host_header |-> None,
     authority |-> None, default_scheme |-> None]

Intrinsics == {Http1, Http2, Bare}

Request(i, f, xf, xh, xp, xb) ==
    [is_host_header_allowed |-> i.is_host_header_allowed,
     host_header |-> i.host_header,
     authority |-> i.authority,
     default_scheme |-> i.default_scheme,
     forwarded |-> f,
     x_forwarded_for |-> xf,
     x_forwarded_host |-> xh,
     x_forwarded_proto |-> xp,
     x_forwarded_by |-> xb]

\* every combination of a few values of each header
RequestsGeneral ==
    {Request(i, f, xf, xh, xp, xb) :
        i \in Intrinsics, f \in ForwardedFew, xf \in ForFew,
        xh \in HostValues, xp \in ProtoValues, xb \in ByValues}

\* every Forwarded header of up to MaxRecords records on a bare request, and
\* the headers of one hop on a request that carries the four legacy headers
RequestsForwarded ==
    {Request(Bare, f, <<>>, <<>>, <<>>, <<>>) : f \in ForwardedValues \cup ForwardedOdd}
    \cup {Request(Http1, f, <<"1.1.1.1, 8.8.8.8">>, <<"first.com, example.com:8080">>,
                  <<"http, https">>, <<"proxy1">>) :
              f \in {<<r>> : r \in ForwardedRecords} \cup ForwardedFew \cup ForwardedOdd}

\* every X-Forwarded-For header of up to MaxEntries entries, without a
\* Forwarded header and with one
RequestsFor ==
    {Request(Http1, f, xf, <<>>, <<>>, <<>>) :
        f \in {<<>>, <<"for=10.0.0.1;host=t.io">>}, xf \in ForValues}

\* for= parameters of a Forwarded record: a client, a proxy of a private
\* range, an address trusted only once it is added, a token
ForItems == {"for=1.1.1.1", "for=10.0.0.1", "for=8.8.8.8", "for=unknown"}

\* records that carry up to MaxRecords for= parameters
ManyForRecords == {Join(q, ";") : q \in SeqsUpTo(ForItems, MaxRecords) \ {<<>>}}

\* every such record as the only one of the header, as the closest hop after
\* a client's record and as the hop before a trusted proxy's record; as the
\* only one again, beside an X-Forwarded-For header
RequestsManyFor ==
    {Request(Http1, f, <<>>, <<>>, <<>>, <<>>) :
        f \in {<<r>> : r \in ManyForRecords}
                \cup {<<"for=1.1.1.1", r>> : r \in ManyForRecords}
                \cup {<<r \o ", for=10.0.0.1">> : r \in ManyForRecords}}
    \cup {Request(Http1, <<r>>, <<"1.1.1.1, 8.8.8.8">>, <<>>, <<>>, <<>>) : r \in ManyForRecords}

\* addresses that no configuration trusts, as text
LiteralAddrs == {"192.0.2.60", "2001:db8:cafe::17"}

RECURSIVE Quoted(_, _)
Quoted(s, layers) == IF layers = 0 THEN s ELSE "\"" \o Quoted(s, layers - 1) \o "\""

\* an address as a node of RFC 7239: an IPv6 address in brackets, a port
\* after it or none, the whole in layers of double quotes
Literal(a, with_port, layers) ==
    LET node == IF Find(a, ":", 1) > 0 THEN "[" \o a \o "]" ELSE a
    IN  Quoted(IF with_port THEN node \o ":4711" ELSE node, layers)

\* a request whose only forwarding header is Forwarded (X-Forwarded-For)
OnlyForwarded(f) == Request(Bare, f, <<>>, <<>>, <<>>, <<>>)
OnlyFor(xf) == Request(Bare, <<>>, xf, <<>>, <<>>, <<>>)

\* every literal as a for= value, in up to MaxQuotes layers of quotes, alone
\* and with quoted by and host values and blanks around the values; every
\* literal as an X-Forwarded-For entry, bare and quoted
RequestsLiteral ==
    {OnlyForwarded(<<"for=" \o Literal(a, p, n)>>) :
        a \in LiteralAddrs, p \in BOOLEAN, n \in 0..MaxQuotes}
    \cup {OnlyForwarded(<<"by= " \o Quoted("px", n) \o " ;for= " \o Literal(a, TRUE, n)
                          \o " ; host=" \o Quoted("h.io", n)>>) :
              a \in LiteralAddrs, n \in 0..MaxQuotes}
    \cup {OnlyFor(<<Literal(a, p, n)>>) : a \in LiteralAddrs, p \in BOOLEAN, n \in 0..1}

\* the ASCII lower case letters, each with its upper case letter
UpperOf == [c \in {Ch(LowerCase, i) : i \in 1..26} |-> Ch(UpperCase, Find(LowerCase, c, 1))]

UpperChar(c) == IF c \in DOMAIN UpperOf THEN UpperOf[c] ELSE c

RECURSIVE ToUppercase(_)
ToUppercase(s) ==
    IF Len(s) = 0 THEN s ELSE UpperChar(Ch(s, 1)) \o ToUppercase(Tail(s))

\* the letter cases a parameter key is written in
KeyStyles == {"lower", "upper", "capital"}

\* a key, blanks around it included, written in a letter case
Styled(key, style) ==
    LET word == TrimStart(key)
        blanks == SubSeq(key, 1, Len(key) - Len(word))
    IN  IF style = "lower" THEN ToLowercase(key)
        ELSE IF style = "upper" THEN ToUppercase(key)
        ELSE IF Len(word) = 0 THEN key
        ELSE blanks \o UpperChar(Ch(word, 1)) \o ToLowercase(Tail(word))

StyledItem(item, style) ==
    LET kv == SplitN2(item, "=")
    IN  IF Len(kv) = 2 THEN Styled(kv[1], style) \o "=" \o kv[2] ELSE Styled(kv[1], style)

StyledRecord(record, style) ==
    LET items == Split(record, ";")
    IN  Join([i \in 1..Len(items) |-> StyledItem(items[i], style)], ";")

StyledInstance(value, style) ==
    LET records == Split(value, ",")
    IN  Join([i \in 1..Len(records) |-> StyledRecord(records[i], style)], ",")

\* a Forwarded header with every parameter key rewritten in a letter case
KeysIn(header, style) == [i \in 1..Len(header) |-> StyledInstance(header[i], style)]

\* Forwarded headers with keys in mixed letter cases
KeyHeaders ==
    {<<"For=1.1.1.1;PROTO=https;hOsT=h.io;By=px">>,
     <<"FOR=1.1.1.1; Proto=https, HOST=t.io; fOR=10.0.0.1; BY=b1">>,
     <<"proto=http;FOR=8.8.8.8", "Host=x.io;for=unknown">>}

\* each of them as written and in each letter case, on a request that
\* carries the four legacy headers
RequestsKeys ==
    {Request(Http1, f, <<"1.1.1.1, 8.8.8.8">>, <<"first.com, example.com:8080">>,
             <<"http, https">>, <<"proxy1">>) :
        f \in KeyHeaders \cup {KeysIn(h, style) : h \in KeyHeaders, style \in KeyStyles}}

\* an HTTP/1.1 request with the given Forwarded, X-Forwarded-For,
\* X-Forwarded-Host and X-Forwarded-Proto headers
Carrying(f, xf, xh, xp) == Request(Http1, f, xf, xh, xp, <<>>)

\* requests with a malformed token, each with the request that lacks the
\* token: a parameter without '=', a parameter with an empty value, a for=
\* that is no address, an empty last element of a list
MalformedCases ==
    {[with |-> Carrying(<<"for=1.1.1.1;proto">>, <<>>, <<>>, <<>>),
      without |-> Carrying(<<"for=1.1.1.1">>, <<>>, <<>>, <<>>)],
     [with |-> Carrying(<<"for=1.1.1.1;host=">>, <<>>, <<>>, <<>>),
      without |-> Carrying(<<"for=1.1.1.1">>, <<>>, <<>>, <<>>)],
     [with |-> Carrying(<<"for=_hidden;proto=https">>, <<>>, <<>>, <<>>),
      without |-> Carrying(<<"proto=https">>, <<>>, <<>>, <<>>)],
     [with |-> Carrying(<<>>, <<"1.1.1.1, ">>, <<>>, <<>>),
      without |-> Carrying(<<>>, <<"1.1.1.1">>, <<>>, <<>>)],
     [with |-> Carrying(<<>>, <<>>, <<"example.com, ">>, <<>>),
      without |-> Carrying(<<>>, <<>>, <<"example.com">>, <<>>)],
     [with |-> Carrying(<<>>, <<>>, <<>>, <<"https,">>),
      without |-> Carrying(<<>>, <<>>, <<>>, <<"https">>)]}

RequestsMalformed == {c.with : c \in MalformedCases} \cup {c.without : c \in MalformedCases}

\* the requests that exercise the syntax of the header values
RequestsSyntax == RequestsLiteral \cup RequestsKeys \cup RequestsMalformed

\* arguments of add_trusted_ip: a bare IPv4 address, a network that holds it,
\* an IPv6 network, a bare IPv6 address in it; a word, a prefix length that
\* is too long, an address that is too short
NetTexts ==
    {"8.8.8.8", "8.8.0.0/16", "2001:db8::/32", "2001:db8::1", "nope", "8.8.8.8/33", "8.8.8"}

\* addresses is_ip_trusted is asked about, as the text they are parsed from
ProbeTexts ==
    {"8.8.8.8", "8.8.8.9", "8.8.255.255", "8.9.0.0", "10.0.0.1", "2001:db8::1",
     "2001:db8::2", "2001:db8:ffff:ffff:ffff:ffff:ffff:ffff", "2001:db9::"}

\* "...".parse().unwrap() of each of them
ProbeAddr == [probe \in ProbeTexts |-> Addr(probe)]

\* combined host fields: with and without a port, ports that are no u16, an
\* IPv6 literal
HostFields ==
    {"mydomain.com:8080", "mydomain.com", "example.com:99999", "example.com:http",
     "example.com:", "[::1]:8080", "a.io:+80", "a.io:0080", "a.io:65535", "a.io:65536"}

\* a request of the http crate: its version decides is_host_header_allowed
HttpRequest(version, host_header, authority, xh) ==
    [is_host_header_allowed |-> is_host_header_allowed(version),
     host_header |-> host_header,
     authority |-> authority,
     default_scheme |-> Some("http"),
     forwarded |-> <<>>,
     x_forwarded_for |-> <<>>,
     x_forwarded_host |-> xh,
     x_forwarded_proto |-> <<>>,
     x_forwarded_by |-> <<>>]

\* every version with and without a Host header and an authority, and an
\* HTTP/1.1 request with each host field in X-Forwarded-Host
RequestsHost ==
    {HttpRequest(Versions[i], h, a, <<>>) :
        i \in 1..Len(Versions),
        h \in {None, Some("rust-lang.org:8081"), Some("[::1]:8080")},
        a \in {None, Some("localhost:8080")}}
    \cup {HttpRequest("HTTP/1.1", Some("rust-lang.org"), Some("localhost:8080"), <<f>>) :
              f \in HostFields}

(***************************************************************************)
(* The state machine.  config is the one Config of the process and ctor    *)
(* the constructor that built it; call is the last operation called, with  *)
(* its arguments, and ret is what it returned: <<>> for (), <<"Ok">> or     *)
(* <<"Err">> for a Result<(), AddrParseError>, and <<"Borrowed", fields>>  *)
(* for the Trusted::Borrowed that Trusted::from builds.                    *)
(*                                                                         *)
(* Trusted::from takes the Config by shared reference and changes nothing, *)
(* so any call made after a resolution reaches the state the same call     *)
(* reaches when made before it.  Only the latter step is generated: a      *)
(* resolution is the last step of a behaviour.                             *)
(***************************************************************************)
Init ==
    \/ /\ ctor = "new"
       /\ config = ConfigNew
       /\ call = [op |-> "new", args |-> <<>>]
       /\ ret = <<>>
    \/ /\ ctor = "new_local"
       /\ config = ConfigNewLocal
       /\ call = [op |-> "new_local", args |-> <<>>]
       /\ ret = <<>>

Built == IF ctor = "new" THEN ConfigNew ELSE ConfigNewLocal

\* the number of networks pushed since construction
Added == Len(config.trusted_ips) - Len(Built.trusted_ips)

Idle == call.op \notin {"from", "is_ip_trusted"}

AddTrustedIp ==
    /\ Idle
    /\ \E proxy \in AddTexts :
        LET r == add_trusted_ip(config, proxy)
        IN  /\ call' = [op |-> "add_trusted_ip", args |-> <<proxy>>]
            /\ IF IsSome(r)
               THEN Added < MaxAdds /\ config' = Unwrap(r) /\ ret' = <<"Ok">>
               ELSE config' = config /\ ret' = <<"Err">>
    /\ UNCHANGED ctor

\* mutant: a setter flips its flag
Setter_Flips(op, flag) ==
    /\ Idle
    /\ config' = [config EXCEPT ![flag] = ~@]
    /\ call' = [op |-> op, args |-> <<>>]
    /\ ret' = <<>>
    /\ UNCHANGED ctor

\* the five trust_<header>() setters
Setter(op, flag) ==
    /\ Idle
    /\ config' = [config EXCEPT ![flag] = TRUE]
    /\ call' = [op |-> op, args |-> <<>>]
    /\ ret' = <<>>
    /\ UNCHANGED ctor

TrustForwarded == Setter("trust_forwarded", "is_forwarded_trusted")
TrustXForwardedFor == Setter("trust_x_forwarded_for", "is_x_forwarded_for_trusted")
TrustXForwardedHost == Setter("trust_x_forwarded_host", "is_x_forwarded_host_trusted")
TrustXForwardedProto == Setter("trust_x_forwarded_proto", "is_x_forwarded_proto_trusted")
TrustXForwardedBy == Setter("trust_x_forwarded_by", "is_x_forwarded_by_trusted")

\* Trusted::from(ip_addr, &request, &config), on the requests that combine a
\* few values of every header
Resolve ==
    /\ Idle
    /\ \E ip_addr \in Peers, request \in RequestsGeneral :
        /\ call' = [op |-> "from", args |-> <<ip_addr, request>>]
        /\ ret' = <<"Borrowed", From(ip_addr, request, config)>>
    /\ UNCHANGED <<config, ctor>>

\* Trusted::from on the requests with a generated Forwarded header
ResolveForwarded ==
    /\ Idle
    /\ \E ip_addr \in Peers, request \in RequestsForwarded :
        /\ call' = [op |-> "from", args |-> <<ip_addr, request>>]
        /\ ret' = <<"Borrowed", From(ip_addr, request, config)>>
    /\ UNCHANGED <<config, ctor>>

\* Trusted::from on the requests with a generated X-Forwarded-For header
ResolveFor ==
    /\ Idle
    /\ \E ip_addr \in Peers, request \in RequestsFor :
        /\ call' = [op |-> "from", args |-> <<ip_addr, request>>]
        /\ ret' = <<"Borrowed", From(ip_addr, request, config)>>
    /\ UNCHANGED <<config, ctor>>

\* Trusted::from on the requests of the http crate
ResolveHost ==
    /\ Idle
    /\ \E ip_addr \in Peers, request \in RequestsHost :
        /\ call' = [op |-> "from", args |-> <<ip_addr, request>>]
        /\ ret' = <<"Borrowed", From(ip_addr, request, config)>>
    /\ UNCHANGED <<config, ctor>>

\* Trusted::from on the requests that exercise the syntax of the values
ResolveSyntax ==
    /\ Idle
    /\ \E ip_addr \in Peers, request \in RequestsSyntax :
        /\ call' = [op |-> "from", args |-> <<ip_addr, request>>]
        /\ ret' = <<"Borrowed", From(ip_addr, request, config)>>
    /\ UNCHANGED <<config, ctor>>

\* Trusted::from on the requests whose records carry several for= parameters
ResolveManyFor ==
    /\ Idle
    /\ \E ip_addr \in Peers, request \in RequestsManyFor :
        /\ call' = [op |-> "from", args |-> <<ip_addr, request>>]
        /\ ret' = <<"Borrowed", From(ip_addr, request, config)>>
    /\ UNCHANGED <<config, ctor>>

\* Default::default(), beside the two constructors
InitConfig ==
    \/ Init
    \/ /\ ctor = "default"
       /\ config = ConfigDefault
       /\ call = [op |-> "default", args |-> <<>>]
       /\ ret = <<>>

\* Config::add_trusted_ip, with networks and addresses of both families
AddTrustedNet ==
    /\ Idle
    /\ \E proxy \in NetTexts :
        LET r == add_trusted_ip(config, proxy)
        IN  /\ call' = [op |-> "add_trusted_ip", args |-> <<proxy>>]
            /\ IF IsSome(r)
               THEN Added < MaxNets /\ config' = Unwrap(r) /\ ret' = <<"Ok">>
               ELSE config' = config /\ ret' = <<"Err">>
    /\ UNCHANGED ctor

\* Config::is_ip_trusted(&"...".parse().unwrap()): the bool, as printed
IsIpTrusted ==
    /\ Idle
    /\ \E probe \in ProbeTexts :
        /\ call' = [op |-> "is_ip_trusted", args |-> <<probe>>]
        /\ ret' = IF is_ip_trusted(config, ProbeAddr[probe]) THEN <<"true">> ELSE <<"false">>
    /\ UNCHANGED <<config, ctor>>

Configure ==
    \/ AddTrustedIp
    \/ TrustForwarded
    \/ TrustXForwardedFor
    \/ TrustXForwardedHost
    \/ TrustXForwardedProto
    \/ TrustXForwardedBy

Next == Configure \/ Resolve
NextForwarded == Configure \/ ResolveForwarded
NextFor == Configure \/ ResolveFor
NextHost == Configure \/ ResolveHost
NextSyntax == Configure \/ ResolveSyntax
NextManyFor == Configure \/ ResolveManyFor
NextConfig ==
    \/ AddTrustedNet
    \/ TrustXForwardedHost
    \/ TrustXForwardedBy
    \/ IsIpTrusted
NextSetters == Configure

\* resolution of requests that combine a few values of every header
Spec == Init /\ [][Next]_vars
\* resolution of requests with generated Forwarded headers
SpecForwarded == Init /\ [][NextForwarded]_vars
\* resolution of requests with generated X-Forwarded-For headers
SpecFor == Init /\ [][NextFor]_vars

\* resolution of requests of the http crate, read through the accessors
SpecHost == Init /\ [][NextHost]_vars

\* resolution of requests that exercise the syntax of the header values
SpecSyntax == Init /\ [][NextSyntax]_vars

\* resolution of requests whose records carry several for= parameters
SpecManyFor == Init /\ [][NextManyFor]_vars

\* the trusted set: construction, add_trusted_ip, is_ip_trusted
SpecConfig == InitConfig /\ [][NextConfig]_vars

\* the configuration calls alone, after any of the three constructions
SpecSetters == InitConfig /\ [][NextSetters]_vars

(***************************************************************************)
(* The claims.  In a state reached by Trusted::from, Peer and Req are the  *)
(* arguments of the call and Result the fields of the value returned.      *)
(***************************************************************************)
Resolved == call.op = "from"
Peer == call.args[1]
Req == call.args[2]
Result == ret[2]
PeerTrusted == is_ip_trusted(config, Peer)

AllFlagsOff ==
    /\ ~config.is_forwarded_trusted
    /\ ~config.is_x_forwarded_for_trusted
    /\ ~config.is_x_forwarded_host_trusted
    /\ ~config.is_x_forwarded_proto_trusted
    /\ ~config.is_x_forwarded_by_trusted

AllFlagsOn ==
    /\ config.is_forwarded_trusted
    /\ config.is_x_forwarded_for_trusted
    /\ config.is_x_forwarded_host_trusted
    /\ config.is_x_forwarded_proto_trusted
    /\ config.is_x_forwarded_by_trusted

AllHeadersPresent(request) ==
    /\ request.forwarded # <<>>
    /\ request.x_forwarded_for # <<>>
    /\ request.x_forwarded_host # <<>>
    /\ request.x_forwarded_proto # <<>>
    /\ request.x_forwarded_by # <<>>

\* Step 0's fallback: the request-intrinsic host and scheme, no by, the peer
IntrinsicHost(request) ==
    IF request.is_host_header_allowed /\ request.host_header # None
    THEN request.host_header
    ELSE request.authority

Fallback(ip_addr, request) ==
    [host |-> IntrinsicHost(request),
     scheme |-> request.default_scheme,
     by |-> None,
     ip |-> ip_addr]

\* C1: spoof resistance.  When the peer address is not in the trusted set, the
\* result is ip = peer address, host = request-intrinsic default host,
\* scheme = URI scheme and by = none, whatever the flags and whatever the
\* Forwarded and X-Forwarded-* headers hold.
C1_SpoofResistance ==
    (Resolved /\ ~PeerTrusted) => Result = Fallback(Peer, Req)

C1_Witness ==
    /\ Resolved /\ ~PeerTrusted /\ AllFlagsOn /\ AllHeadersPresent(Req)
    /\ Req.host_header # None
    /\ Result.ip = Peer /\ Result.by = None /\ Result.host = Req.host_header

\* C6: with the five flags off the result is the Step 0 fallback, for a
\* trusted peer as for an untrusted one.
C6_AllFlagsOffIsFallback ==
    (Resolved /\ AllFlagsOff) => Result = Fallback(Peer, Req)

C6_Witness ==
    /\ Resolved /\ AllFlagsOff /\ PeerTrusted /\ AllHeadersPresent(Req)
    /\ Result = Fallback(Peer, Req)

\* C7: per-header flag gating.  When the flag of a header is off, a request
\* that differs from the resolved one only in the values of that header
\* yields the same result, whatever the other four flags are.
C7_FlagGating ==
    Resolved =>
        /\ ~config.is_forwarded_trusted =>
             \A v \in ForwardedFew :
                From(Peer, [Req EXCEPT !.forwarded = v], config) = Result
        /\ ~config.is_x_forwarded_for_trusted =>
             \A v \in ForFew :
                From(Peer, [Req EXCEPT !.x_forwarded_for = v], config) = Result
        /\ ~config.is_x_forwarded_host_trusted =>
             \A v \in HostValues :
                From(Peer, [Req EXCEPT !.x_forwarded_host = v], config) = Result
        /\ ~config.is_x_forwarded_proto_trusted =>
             \A v \in ProtoValues :
                From(Peer, [Req EXCEPT !.x_forwarded_proto = v], config) = Result
        /\ ~config.is_x_forwarded_by_trusted =>
             \A v \in ByValues :
                From(Peer, [Req EXCEPT !.x_forwarded_by = v], config) = Result

\* a trusted peer, X-Forwarded-Proto present and its flag off while the four
\* other flags are on: the scheme is the intrinsic one
C7_Witness ==
    /\ Resolved /\ PeerTrusted
    /\ ~config.is_x_forwarded_proto_trusted
    /\ config.is_forwarded_trusted /\ config.is_x_forwarded_for_trusted
    /\ config.is_x_forwarded_host_trusted /\ config.is_x_forwarded_by_trusted
    /\ Req.forwarded = <<>> /\ Req.x_forwarded_proto = <<"http, https">>
    /\ Req.default_scheme = None
    /\ Result.scheme = None

\* the last comma-separated value of the last instance of a header, trimmed
LastInstance(vals) == vals[Len(vals)]
LastOfList(s) == Split(s, ",")[Len(Split(s, ","))]
LastTrimmed(vals) == Trim(LastOfList(LastInstance(vals)))

\* C8: last-value rule.  For a trusted peer, when the flag of
\* X-Forwarded-Host (X-Forwarded-Proto, X-Forwarded-By) is set, the header is
\* present and Forwarded did not resolve host (scheme, by), the field is the
\* trimmed last comma-separated value of the last header instance.
C8_LastValueRule ==
    (Resolved /\ PeerTrusted) =>
        LET fwd == ForwardedStep(Req, config)
        IN  /\ (/\ config.is_x_forwarded_host_trusted
                /\ fwd.host = None
                /\ Req.x_forwarded_host # <<>>)
                => Result.host = Some(LastTrimmed(Req.x_forwarded_host))
            /\ (/\ config.is_x_forwarded_proto_trusted
                /\ fwd.scheme = None
                /\ Req.x_forwarded_proto # <<>>)
                => Result.scheme = Some(LastTrimmed(Req.x_forwarded_proto))
            /\ (/\ config.is_x_forwarded_by_trusted
                /\ fwd.by = None
                /\ Req.x_forwarded_by # <<>>)
                => Result.by = Some(LastTrimmed(Req.x_forwarded_by))

C8_Witness ==
    /\ Resolved /\ PeerTrusted
    /\ config.is_x_forwarded_host_trusted
    /\ config.is_x_forwarded_proto_trusted
    /\ config.is_x_forwarded_by_trusted
    /\ Req.x_forwarded_host = <<"first.com:1234", "a.org , example.com:8080 ">>
    /\ Req.x_forwarded_proto = <<"http, https">>
    /\ Req.x_forwarded_by = <<"p1", "p2,p3">>
    /\ Result.host = Some("example.com:8080")
    /\ Result.scheme = Some("https")
    /\ Result.by = Some("p3")

\* C9: Forwarded has priority over X-Forwarded-For.  For a trusted peer with
\* both flags set, when the Forwarded walk resolves a client address the
\* result ip is that address, whatever X-Forwarded-For holds.
C9_ForwardedPriority ==
    (/\ Resolved /\ PeerTrusted
     /\ config.is_forwarded_trusted /\ config.is_x_forwarded_for_trusted
     /\ ForwardedStep(Req, config).realip_remote_addr # None)
    => /\ Result.ip = Unwrap(ForwardedStep(Req, config).realip_remote_addr)
       /\ \A v \in ForFew :
            From(Peer, [Req EXCEPT !.x_forwarded_for = v], config).ip = Result.ip

C9_Witness ==
    /\ Resolved /\ PeerTrusted
    /\ config.is_forwarded_trusted /\ config.is_x_forwarded_for_trusted
    /\ Req.forwarded = <<"for=10.0.0.1;host=t.io">>
    /\ Req.x_forwarded_for = <<"1.1.1.1, 8.8.8.8">>
    /\ Result.ip = Addr("10.0.0.1")

\* C10: fallback fill.  For a trusted peer, a host (scheme) that steps 1-5
\* leave unset is the request-intrinsic host (URI scheme), a client address
\* that steps 1-2 leave unset is the peer address, the result always has an
\* ip, and by has no fallback.
C10_FallbackFill ==
    (Resolved /\ PeerTrusted) =>
        LET st == Steps(Req, config)
        IN  /\ st.host = None => Result.host = IntrinsicHost(Req)
            /\ st.scheme = None => Result.scheme = Req.default_scheme
            /\ st.realip_remote_addr = None => Result.ip = Peer
            /\ st.by = None => Result.by = None
            /\ Result.ip.v \in {4, 6}

C10_Witness ==
    /\ Resolved /\ PeerTrusted /\ AllFlagsOn
    /\ Req.forwarded = <<>> /\ Req.x_forwarded_for = <<>>
    /\ Req.x_forwarded_host = <<>> /\ Req.x_forwarded_proto = <<>>
    /\ Req.x_forwarded_by = <<>>
    /\ Req.host_header # None
    /\ Result = [host |-> Req.host_header, scheme |-> Req.default_scheme,
                 by |-> None, ip |-> Peer]

(***************************************************************************)
(* The walks.  A record's for= address is the address its for= parameter   *)
(* parses to; the records and entries below are numbered in header order,  *)
(* so the reverse walk reads the highest number first.                     *)
(***************************************************************************)
Max(S) == CHOOSE x \in S : \A y \in S : y <= x

Records(request) == FlatSplit(request.forwarded)

RecordFor(record) ==
    LET items == Split(record, ";")
        fors == {i \in 1..Len(items) : ToLowercase(KeyValue(items[i]).key) = "for"}
    IN  IF fors = {} THEN None
        ELSE ParseIpAddr(bare_address(KeyValue(items[Max(fors)]).value))

TrustedHop(record) ==
    RecordFor(record) # None /\ is_ip_trusted(config, Unwrap(RecordFor(record)))

UntrustedHop(record) ==
    RecordFor(record) # None /\ ~is_ip_trusted(config, Unwrap(RecordFor(record)))

WithoutForwarded(request) == [request EXCEPT !.forwarded = <<>>]

ForwardedWalked == Resolved /\ PeerTrusted /\ config.is_forwarded_trusted

\* C2, as claimed: the resolved ip is the for= address of the first record,
\* in reverse hop order, whose for= address is not trusted.
C2_FirstUntrustedRecord ==
    ForwardedWalked =>
        LET recs == Records(Req)
            found == {k \in 1..Len(recs) : UntrustedHop(recs[k])}
        IN  found # {} => Result.ip = Unwrap(RecordFor(recs[Max(found)]))

\* C2, amended: the walk stops at the first record, in reverse hop order,
\* whose for= address is not a trusted address.  If that record has a for=
\* address it is the resolved ip; if it has no for= parameter, or one that
\* is not an address, and also when every record is skipped, the ip is the
\* one resolved without the Forwarded header.  (Each record has one for=
\* parameter at most.)
C2_ForwardedWalk ==
    ForwardedWalked =>
        LET recs == Records(Req)
            stops == {k \in 1..Len(recs) : ~TrustedHop(recs[k])}
        IN  IF stops # {} /\ RecordFor(recs[Max(stops)]) # None
            THEN Result.ip = Unwrap(RecordFor(recs[Max(stops)]))
            ELSE Result.ip = From(Peer, WithoutForwarded(Req), config).ip

\* the closest hop is trusted and skipped, the hop before it is the client
C2_Witness ==
    /\ ForwardedWalked
    /\ Req.forwarded = <<"for=1.1.1.1", "host=h.io; For=8.8.8.8">>
    /\ is_ip_trusted(config, Addr("8.8.8.8"))
    /\ Result.ip = Addr("1.1.1.1")

\* C5: trusted-hop discard.  A record whose for= address is trusted
\* contributes nothing: the result is the one of the request without the
\* records of trusted hops, wherever host, proto and by stand in them.
C5_TrustedHopDiscard ==
    ForwardedWalked =>
        From(Peer,
             [Req EXCEPT !.forwarded = SelectSeq(Records(Req), LAMBDA r : ~TrustedHop(r))],
             config) = Result

\* host stands before for= in the record of a trusted hop and is dropped
C5_Witness ==
    /\ ForwardedWalked
    /\ Req.forwarded = <<"for=1.1.1.1, host=h.io; For=8.8.8.8">>
    /\ is_ip_trusted(config, Addr("8.8.8.8"))
    /\ Req.authority = None
    /\ Result.host = None
    /\ Result.ip = Addr("1.1.1.1")

Entries(request) == MapTrim(FlatSplit(request.x_forwarded_for))

EntryAddr(entry) == ParseIpAddr(bare_address(entry))

TrustedEntry(entry) ==
    EntryAddr(entry) # None /\ is_ip_trusted(config, Unwrap(EntryAddr(entry)))

ForWalked ==
    /\ Resolved /\ PeerTrusted /\ config.is_x_forwarded_for_trusted
    /\ ForwardedStep(Req, config).realip_remote_addr = None

\* C3: X-Forwarded-For walk.  The entries are scanned from the rightmost to
\* the leftmost; an entry that parses to a trusted address is skipped, the
\* first that parses to an untrusted address is the resolved ip, and an
\* entry that does not parse stops the walk: the ip is then the peer
\* address, as it is when every entry is trusted or the header is absent.
C3_ForWalk ==
    ForWalked =>
        LET entries == Entries(Req)
            stops == {k \in 1..Len(entries) : ~TrustedEntry(entries[k])}
        IN  IF stops # {} /\ EntryAddr(entries[Max(stops)]) # None
            THEN Result.ip = Unwrap(EntryAddr(entries[Max(stops)]))
            ELSE Result.ip = Peer

C3_Witness ==
    /\ ForWalked
    /\ Req.x_forwarded_for = <<"8.8.8.8", "10.0.0.1:80">>
    /\ is_ip_trusted(config, Addr("10.0.0.1"))
    /\ ~is_ip_trusted(config, Addr("8.8.8.8"))
    /\ Result.ip = Addr("8.8.8.8")

\* what a request may hold in place of the older records (entries): nothing,
\* or the claims of a client that forges a hop
OlderRecords == {<<>>, <<"for=9.9.9.9;host=evil.io;proto=ftp;by=evil">>}
OlderEntries == {<<>>, <<"9.9.9.9">>}

\* C4: no backtracking.  Once the reverse walk has found a Forwarded record
\* (an X-Forwarded-For entry) with an untrusted address, a request that
\* differs only in the records (entries) older than that one yields the same
\* ip, host, scheme and by.
C4_NoBacktracking ==
    (Resolved /\ PeerTrusted) =>
        /\ config.is_forwarded_trusted =>
             LET recs == Records(Req)
                 stops == {k \in 1..Len(recs) : ~TrustedHop(recs[k])}
             IN  (stops # {} /\ UntrustedHop(recs[Max(stops)])) =>
                    \A older \in OlderRecords :
                        From(Peer,
                             [Req EXCEPT !.forwarded =
                                older \o SubSeq(recs, Max(stops), Len(recs))],
                             config) = Result
        /\ config.is_x_forwarded_for_trusted =>
             LET entries == Entries(Req)
                 stops == {k \in 1..Len(entries) : ~TrustedEntry(entries[k])}
             IN  (stops # {} /\ EntryAddr(entries[Max(stops)]) # None) =>
                    \A older \in OlderEntries :
                        From(Peer,
                             [Req EXCEPT !.x_forwarded_for =
                                older \o SubSeq(entries, Max(stops), Len(entries))],
                             config) = Result

\* the client's record comes after an older record that claims a host
C4_Witness ==
    /\ ForwardedWalked
    /\ Req.forwarded = <<"host=h.io; For=8.8.8.8, for=1.1.1.1">>
    /\ Req.authority = None
    /\ Result.ip = Addr("1.1.1.1")
    /\ Result.host = None
(***************************************************************************)
(* The request-intrinsic host and the accessors of the result.             *)
(***************************************************************************)
\* the host comes from no forwarding header
HostIsIntrinsic == Resolved /\ Req.forwarded = <<>> /\ Req.x_forwarded_host = <<>>

BelowHttp2 == {"HTTP/0.9", "HTTP/1.0", "HTTP/1.1"}

\* C11: the request-intrinsic host is the Host header value when the
\* protocol version is below HTTP/2 and the header is present, even if the
\* URI authority differs; otherwise it is the URI authority, so that a Host
\* header is never used under HTTP/2 and above.
C11_DefaultHost ==
    HostIsIntrinsic =>
        \A i \in 1..Len(Versions) :
            Req.is_host_header_allowed = is_host_header_allowed(Versions[i]) =>
                IF Versions[i] \in BelowHttp2 /\ Req.host_header # None
                THEN Result.host = Req.host_header
                ELSE Result.host = Req.authority

\* an HTTP/2 request with a Host header and another authority
C11_Witness ==
    /\ HostIsIntrinsic
    /\ Req.is_host_header_allowed = is_host_header_allowed("HTTP/2.0")
    /\ Req.host_header = Some("rust-lang.org:8081")
    /\ Result.host = Some("localhost:8080")

\* index of the last ':' of a host field, 0 if it has none
RECURSIVE LastColon(_)
LastColon(f) ==
    IF Len(f) = 0 THEN 0
    ELSE IF Ch(f, Len(f)) = ":" THEN Len(f)
    ELSE LastColon(SubSeq(f, 1, Len(f) - 1))

\* the 16-bit unsigned integer a port segment denotes, if it denotes one:
\* decimal digits, a '+' sign allowed before them
PortNumber(segment) ==
    LET d == IF StartsWith(segment, "+") THEN Tail(segment) ELSE segment
    IN  IF Len(d) \in 1..9 /\ AllDigits(d) /\ NumberValue(d, 10) <= U16Max
        THEN Some(NumberValue(d, 10)) ELSE None

\* C12, as claimed: host() is the combined host field without its trailing
\* ':port' segment and port() is that trailing segment as a 16-bit unsigned
\* integer, none when it is no such number; for a field without a colon
\* host() is the whole field and port() is none.
C12_HostPortSplit ==
    (Resolved /\ Result.host # None) =>
        LET f == Unwrap(Result.host)
            i == LastColon(f)
        IN  IF i = 0
            THEN host(Result) = Some(f) /\ port(Result) = None
            ELSE /\ host(Result) = Some(SubSeq(f, 1, i - 1))
                 /\ port(Result) = PortNumber(SubSeq(f, i + 1, Len(f)))

(***************************************************************************)
(* The syntax of the header values.                                        *)
(***************************************************************************)
ForWalked0 == Resolved /\ PeerTrusted /\ config.is_x_forwarded_for_trusted

\* the address literal l, as the for= value of the only Forwarded record
\* (as the only X-Forwarded-For entry), resolves to the address a
ForValueGives(l, a) ==
    (ForwardedWalked /\ Req = OnlyForwarded(<<"for=" \o l>>)) => Result.ip = Addr(a)

ForEntryGives(l, a) ==
    (ForWalked0 /\ Req = OnlyFor(<<l>>)) => Result.ip = Addr(a)

\* C13, as claimed: a for= value or an X-Forwarded-For entry that is an IPv4
\* literal or a bracketed IPv6 literal, with a port or without, in double
\* quotes or not, resolves to that address.
C13_LiteralInQuotes ==
    \A a \in LiteralAddrs, p \in BOOLEAN, n \in 0..1 :
        ForValueGives(Literal(a, p, n), a) /\ ForEntryGives(Literal(a, p, n), a)

\* C13, amended: a for= value that is an IPv4 literal or a bracketed IPv6
\* literal, with a port or without, in double quotes or not, resolves to
\* that address, and so does an X-Forwarded-For entry that is such a literal
\* without quotes; an X-Forwarded-For entry in double quotes is no address
\* and leaves the peer address as the ip.
C13_LiteralNormalised ==
    \A a \in LiteralAddrs, p \in BOOLEAN :
        /\ ForValueGives(Literal(a, p, 0), a)
        /\ ForValueGives(Literal(a, p, 1), a)
        /\ ForEntryGives(Literal(a, p, 0), a)
        /\ (ForWalked0 /\ Req = OnlyFor(<<Literal(a, p, 1)>>)) => Result.ip = Peer

\* the quoted, bracketed IPv6 literal with a port of RFC 7239
C13_Witness ==
    /\ ForwardedWalked
    /\ Req.forwarded = <<"for=\"[2001:db8:cafe::17]:4711\"">>
    /\ Result.ip = [v |-> 6, g |-> <<8193, 3512, 51966, 0, 0, 0, 0, 23>>]

\* C14: the keys of the Forwarded parameters are matched whatever their
\* letter case: rewriting every key of the Forwarded header in lower case,
\* in upper case or capitalised leaves the result unchanged.
C14_KeyCase ==
    Resolved =>
        \A style \in KeyStyles :
            From(Peer, [Req EXCEPT !.forwarded = KeysIn(@, style)], config) = Result

\* the four keys in four letter cases, all of them read
C14_Witness ==
    /\ ForwardedWalked
    /\ Req.forwarded = <<"For=1.1.1.1;PROTO=https;hOsT=h.io;By=px">>
    /\ Result = [host |-> Some("h.io"), scheme |-> Some("https"), by |-> Some("px"),
                 ip |-> Addr("1.1.1.1")]

\* C15, as claimed: a malformed token of a forwarding header (a Forwarded
\* parameter without '=' or with an empty value, a for= that is no address,
\* an empty element of an X-Forwarded-* list) is treated as absent: the
\* result is the one of the request that lacks the token.
C15_MalformedIsAbsent ==
    Resolved =>
        \A c \in MalformedCases :
            Req = c.with => Result = From(Peer, c.without, config)

\* the request with by, for and host values in n layers of quotes and blanks
\* around them
QuotedFields(a, n) ==
    OnlyForwarded(<<"by= " \o Quoted("px", n) \o " ;for= " \o Literal(a, TRUE, n)
                    \o " ; host=" \o Quoted("h.io", n)>>)

\* C20, as claimed: unquoting removes one layer of double quotes, so a for=
\* value in two layers keeps its inner quotes and is no address: no client
\* address is resolved from it.
C20_OneLayerRemoved ==
    \A a \in LiteralAddrs, p \in BOOLEAN :
        (ForwardedWalked /\ Req = OnlyForwarded(<<"for=" \o Literal(a, p, 2)>>))
            => Result.ip = Peer

\* C20, amended: unquoting trims the blanks around a value and then removes
\* every double quote at its start and at its end, so a for= value in any
\* number of layers of quotes resolves to its address, and by and host
\* values in layers of quotes are the bare values.
C20_EveryLayerRemoved ==
    \A a \in LiteralAddrs, n \in 0..MaxQuotes :
        /\ \A p \in BOOLEAN : ForValueGives(Literal(a, p, n), a)
        /\ (ForwardedWalked /\ Req = QuotedFields(a, n)) =>
                /\ Result.ip = Addr(a)
                /\ Result.by = Some("px")
                /\ Result.host = Some("h.io")

\* a for= value in two layers of quotes gives its address
C20_Witness ==
    /\ ForwardedWalked
    /\ Req.forwarded = <<"for=\"\"192.0.2.60\"\"">>
    /\ Result.ip = Addr("192.0.2.60")

(***************************************************************************)
(* The trusted set.                                                        *)
(***************************************************************************)
\* the texts that are a CIDR literal or a bare IP address
WellFormedTexts == {"8.8.8.8", "8.8.0.0/16", "2001:db8::/32", "2001:db8::1"}

\* the prefix each of them denotes, a bare address denoting the prefix of
\* host length
Denoted(text) ==
    CASE text = "8.8.8.8" -> [addr |-> [v |-> 4, g |-> <<8, 8, 8, 8>>], len |-> 32]
      [] text = "8.8.0.0/16" -> [addr |-> [v |-> 4, g |-> <<8, 8, 0, 0>>], len |-> 16]
      [] text = "2001:db8::/32" ->
            [addr |-> [v |-> 6, g |-> <<8193, 3512, 0, 0, 0, 0, 0, 0>>], len |-> 32]
      [] text = "2001:db8::1" ->
            [addr |-> [v |-> 6, g |-> <<8193, 3512, 0, 0, 0, 0, 0, 1>>], len |-> 128]

\* the answers of is_ip_trusted, for every address asked about
Answers(cfg) == [probe \in ProbeTexts |-> is_ip_trusted(cfg, ProbeAddr[probe])]

\* C16: add_trusted_ip returns Ok iff the text is a CIDR literal or a bare IP
\* address and Err otherwise; a call that fails leaves the trusted set and
\* the five flags as they were, and with them every is_ip_trusted answer.
C16_AddTrustedIp ==
    [][call'.op = "add_trusted_ip" =>
        /\ ret' \in {<<"Ok">>, <<"Err">>}
        /\ ret' = <<"Ok">> <=> call'.args[1] \in WellFormedTexts
        /\ ret' = <<"Err">> => (config' = config /\ Answers(config') = Answers(config))]_vars

\* a text that is no network is refused by a config that has taken one
C16_Witness ==
    /\ call = [op |-> "add_trusted_ip", args |-> <<"8.8.8.8/33">>]
    /\ ret = <<"Err">>
    /\ Added = 1
    /\ config.is_x_forwarded_host_trusted

\* the addresses asked about that fall inside each prefix, and inside the
\* pre-seeded ranges of new_local
Members(text) ==
    CASE text = "8.8.8.8" -> {"8.8.8.8"}
      [] text = "8.8.0.0/16" -> {"8.8.8.8", "8.8.8.9", "8.8.255.255"}
      [] text = "2001:db8::/32" ->
            {"2001:db8::1", "2001:db8::2", "2001:db8:ffff:ffff:ffff:ffff:ffff:ffff"}
      [] text = "2001:db8::1" -> {"2001:db8::1"}

PreSeededMembers == IF ctor = "new" THEN {} ELSE {"10.0.0.1"}

\* the prefixes added with success since construction
AddedPrefixes ==
    {config.trusted_ips[i] : i \in Len(Built.trusted_ips) + 1..Len(config.trusted_ips)}

\* an address is trusted iff it falls inside a pre-seeded or an added prefix
TrustedSetIsUnion ==
    \A probe \in ProbeTexts :
        is_ip_trusted(config, ProbeAddr[probe]) <=>
            \/ probe \in PreSeededMembers
            \/ \E text \in WellFormedTexts :
                    Denoted(text) \in AddedPrefixes /\ probe \in Members(text)

\* a successful add_trusted_ip stores the prefix the text denotes, and no
\* step makes a trusted address untrusted
TrustedSetGrows ==
    /\ (call'.op = "add_trusted_ip" /\ ret' = <<"Ok">>) =>
            config'.trusted_ips = Append(config.trusted_ips, Denoted(call'.args[1]))
    /\ config' # config =>
            \A probe \in ProbeTexts :
                is_ip_trusted(config, ProbeAddr[probe]) => is_ip_trusted(config', ProbeAddr[probe])

\* C17: after any sequence of add_trusted_ip calls, is_ip_trusted(addr) is
\* true iff addr falls inside a pre-seeded or a successfully added prefix, a
\* bare address being the prefix of host length that holds only itself; the
\* answer depends on the set of prefixes added, not on their order or on
\* duplicates, and adding a network never makes a trusted address untrusted.
C17_TrustedSet == []TrustedSetIsUnion /\ [][TrustedSetGrows]_vars

\* a bare address, then a network that holds it: the next address of the
\* network is trusted
C17_Witness ==
    /\ ctor = "new"
    /\ config.trusted_ips = <<Denoted("8.8.8.8"), Denoted("8.8.0.0/16")>>
    /\ call = [op |-> "is_ip_trusted", args |-> <<"8.8.8.9">>]
    /\ ret = <<"true">>

\* addresses at both ends of each pre-seeded range, just outside of them,
\* and far from them; the last but one is 10.0.0.1 mapped into IPv6
RangeProbes ==
    {"127.0.0.0", "127.255.255.255", "126.255.255.255", "128.0.0.0",
     "10.0.0.0", "10.255.255.255", "9.255.255.255", "11.0.0.0",
     "172.16.0.0", "172.31.255.255", "172.15.255.255", "172.32.0.0",
     "192.168.0.0", "192.168.255.255", "192.167.255.255", "192.169.0.0",
     "0.0.0.0", "8.8.8.8", "255.255.255.255",
     "::1", "::", "::2", "fd00::", "fdff:ffff:ffff:ffff:ffff:ffff:ffff:ffff",
     "fcff:ffff:ffff:ffff:ffff:ffff:ffff:ffff", "fe00::", "fc00::1",
     "::ffff:a00:1", "2001:db8::1"}

RangeProbeAddr == [probe \in RangeProbes |-> Addr(probe)]

\* the addresses of 127.0.0.0/8, 10.0.0.0/8, 172.16.0.0/12, 192.168.0.0/16,
\* ::1/128 and fd00::/8, as ranges of octets and of groups
InLocalRanges(a) ==
    IF a.v = 4
    THEN \/ a.g[1] = 127
         \/ a.g[1] = 10
         \/ a.g[1] = 172 /\ a.g[2] \in 16..31
         \/ a.g[1] = 192 /\ a.g[2] = 168
    ELSE \/ a.g = <<0, 0, 0, 0, 0, 0, 0, 1>>
         \/ a.g[1] \in 64768..65023

Flags(cfg) ==
    <<cfg.is_forwarded_trusted, cfg.is_x_forwarded_for_trusted,
      cfg.is_x_forwarded_host_trusted, cfg.is_x_forwarded_proto_trusted,
      cfg.is_x_forwarded_by_trusted>>

\* C18: just built, a new_local() or default() config trusts the addresses
\* of 127.0.0.0/8, 10.0.0.0/8, 172.16.0.0/12, 192.168.0.0/16, ::1/128 and
\* fd00::/8 and no other, with the Forwarded and X-Forwarded-For flags on
\* and the three others off; a new() config trusts no address and has the
\* five flags off.
C18_Constructors ==
    /\ call.op \in {"new_local", "default"} =>
            /\ Flags(config) = <<TRUE, TRUE, FALSE, FALSE, FALSE>>
            /\ \A probe \in RangeProbes :
                    is_ip_trusted(config, RangeProbeAddr[probe])
                        <=> InLocalRanges(RangeProbeAddr[probe])
    /\ call.op = "new" =>
            /\ Flags(config) = <<FALSE, FALSE, FALSE, FALSE, FALSE>>
            /\ \A probe \in RangeProbes : ~is_ip_trusted(config, RangeProbeAddr[probe])

\* the Default config trusts the last address of 172.16.0.0/12 and not the
\* address after it
C18_Witness ==
    /\ call.op = "default"
    /\ is_ip_trusted(config, RangeProbeAddr["172.31.255.255"])
    /\ ~is_ip_trusted(config, RangeProbeAddr["172.32.0.0"])
    /\ ~is_ip_trusted(config, RangeProbeAddr["::ffff:a00:1"])

(***************************************************************************)
(* What step 1 leaves when it finds no client address.                     *)
(***************************************************************************)
\* the value of the last parameter of a record with the given key
RecordParam(record, key) ==
    LET items == Split(record, ";")
        found == {i \in 1..Len(items) : ToLowercase(KeyValue(items[i]).key) = key}
    IN  IF found = {} THEN None ELSE Some(KeyValue(items[Max(found)]).value)

\* the result for the same request without its Forwarded header
ResultWithoutForwarded == From(Peer, WithoutForwarded(Req), config)

\* C19, as claimed: when no Forwarded record with a parseable untrusted for=
\* address is found (header absent, flag off, every for= trusted, records
\* without a parseable for=), step 1 leaves host, scheme, by and the client
\* address unset: the result is the one of the request without Forwarded.
C19_NothingWithoutClient ==
    (Resolved /\ PeerTrusted) =>
        LET recs == Records(Req)
        IN  (~config.is_forwarded_trusted \/ \A k \in 1..Len(recs) : ~UntrustedHop(recs[k]))
                => Result = ResultWithoutForwarded

\* C19, amended: when the header is absent, the flag is off or every record
\* is skipped for its trusted for= address, step 1 leaves the four fields
\* unset and the result is the one of the request without Forwarded; when
\* the walk ends on a record without a parseable for= address, the client
\* address is unset but the host, proto and by parameters of that record are
\* kept, and only those it lacks come from the other sources.
C19_FieldsOfLastRecordKept ==
    (Resolved /\ PeerTrusted) =>
        LET recs == Records(Req)
            stops == {k \in 1..Len(recs) : ~TrustedHop(recs[k])}
            without == ResultWithoutForwarded
        IN  IF ~config.is_forwarded_trusted \/ stops = {}
            THEN Result = without
            ELSE RecordFor(recs[Max(stops)]) = None =>
                    LET last == recs[Max(stops)]
                        kept(key, other) ==
                            IF RecordParam(last, key) # None
                            THEN RecordParam(last, key) ELSE other
                    IN  Result = [host |-> kept("host", without.host),
                                  scheme |-> kept("proto", without.scheme),
                                  by |-> kept("by", without.by),
                                  ip |-> without.ip]

\* the closest hop gives proto and by but no for=: both are kept, the host
\* and the ip come from the legacy headers
C19_Witness ==
    /\ Resolved /\ PeerTrusted /\ config.is_forwarded_trusted
    /\ config.is_x_forwarded_host_trusted /\ config.is_x_forwarded_proto_trusted
    /\ Req.forwarded = <<"proto=https;by=px">>
    /\ Req.x_forwarded_proto = <<"http, https">>
    /\ Req.x_forwarded_host # <<>>
    /\ Result.scheme = Some("https")
    /\ Result.by = Some("px")
    /\ Result.host = Some("example.com:8080")

(***************************************************************************)
(* The five setters.                                                       *)
(***************************************************************************)
FlagNames ==
    {"is_forwarded_trusted", "is_x_forwarded_for_trusted", "is_x_forwarded_host_trusted",
     "is_x_forwarded_proto_trusted", "is_x_forwarded_by_trusted"}

\* the setter of each flag
SetterOf ==
    [flag \in FlagNames |->
        CASE flag = "is_forwarded_trusted" -> "trust_forwarded"
          [] flag = "is_x_forwarded_for_trusted" -> "trust_x_forwarded_for"
          [] flag = "is_x_forwarded_host_trusted" -> "trust_x_forwarded_host"
          [] flag = "is_x_forwarded_proto_trusted" -> "trust_x_forwarded_proto"
          [] flag = "is_x_forwarded_by_trusted" -> "trust_x_forwarded_by"]

\* just built, a flag is on iff the constructor pre-enables it
FlagsAsBuilt ==
    call.op \in {"new", "new_local", "default"} =>
        \A flag \in FlagNames :
            config[flag] <=> (ctor \in {"new_local", "default"}
                                /\ flag \in {"is_forwarded_trusted", "is_x_forwarded_for_trusted"})

\* after a call a flag is on iff it was on before the call or the call is
\* its setter; a setter leaves the trusted set as it was, and the whole
\* config when its flag was already on
SetterStep ==
    /\ \A flag \in FlagNames : config'[flag] <=> (config[flag] \/ call'.op = SetterOf[flag])
    /\ call'.op \in {SetterOf[flag] : flag \in FlagNames} =>
            /\ config'.trusted_ips = config.trusted_ips
            /\ \A flag \in FlagNames : (call'.op = SetterOf[flag] /\ config[flag]) => config' = config

\* C21: each setter is idempotent and changes only its own flag: a flag is
\* on iff the constructor pre-enabled it or its setter was called at least
\* once since, no call turns a flag off, and a setter leaves the four other
\* flags and the trusted set unchanged.
C21_Setters == []FlagsAsBuilt /\ [][SetterStep]_vars

\* trust_forwarded() called on a new_local() config, whose Forwarded flag is
\* on from construction, after a network was added and one other flag set
C21_Witness ==
    /\ ctor = "new_local"
    /\ call.op = "trust_forwarded"
    /\ Added = 1
    /\ Flags(config) = <<TRUE, TRUE, FALSE, FALSE, TRUE>>

(***************************************************************************)
(* The resolved address.                                                   *)
(***************************************************************************)
\* C22: the resolved ip is either the observed peer address or an address
\* that is not in the trusted set: an address taken from Forwarded or
\* X-Forwarded-For is never a trusted proxy's address, including when one
\* Forwarded record carries several for= parameters.
C22_NeverTrustedAddress ==
    Resolved => (Result.ip = Peer \/ ~is_ip_trusted(config, Result.ip))

\* the closest record names an untrusted address and then a trusted one: the
\* record is skipped whole and the address is the one of the record before
C22_Witness ==
    /\ Resolved
    /\ PeerTrusted
    /\ Req.forwarded = <<"for=1.1.1.1", "for=8.8.8.8;for=10.0.0.1">>
    /\ ~is_ip_trusted(config, Addr("8.8.8.8"))
    /\ Result.ip = Addr("1.1.1.1")

====
